---- MODULE Spec2Model ----
(***************************************************************************)
(* Model of the agent workflow (backend/app/agents: state.py, nodes.py,    *)
(* graph.py) and of the hybrid retriever (backend/app/rag/                 *)
(* hybrid_retrieval.py).                                                   *)
(*                                                                         *)
(* Encoding conventions                                                    *)
(*  - Python None for a string field is the string "None"; an Optional     *)
(*    list or timestamp is <<>> (None) or <<v>> (the value v).             *)
(*  - Texts are tags; TextLen and the StartsWith* operators give the       *)
(*    length and the prefixes the code tests.                              *)
(*  - str(e) of an exception is one of ErrMsgs; "" is the message of an    *)
(*    exception built without arguments (asyncio.TimeoutError()).          *)
(***************************************************************************)
EXTENDS Integers, Sequences, FiniteSets, TLC

VARIABLES
    state,      \* the AgentState threaded through the graph
    node,       \* the next graph node to execute ("END" when the graph is done)
    executed,   \* history: the nodes executed so far, in order
    faults,     \* history: kinds of collaborator faults seen during the run
    pc,         \* run_agent: "idle" | "running" | "returned" | "raised"
    result,     \* <<>> until run_agent returns, then <<the returned state>>
    hpc,        \* hybrid_retrieve: position in the call
    hreq,       \* hybrid_retrieve: arguments [documents, top_k, alpha, rerank]
    sparse_results,  \* hybrid_retrieve: output of retrieve_sparse
    dense_results,   \* hybrid_retrieve: output of retrieve_dense
    combined_scores, \* hybrid_retrieve: output of _reciprocal_rank_fusion
    sorted_results,  \* hybrid_retrieve: fused candidates, sorted, cut to 2*top_k
    hout,       \* hybrid_retrieve: the returned list
    hfail,      \* hybrid_retrieve: history of collaborator failures
    bm25_index, \* HybridRetriever.bm25_index: <<>> (None) or <<the corpus indexed>>
    self_documents,  \* HybridRetriever.documents
    embedding_cache,  \* HybridRetriever.embedding_cache: the texts it holds
    hcalls,     \* number of hybrid_retrieve calls made on the retriever
    events,     \* run_agent_streaming: the events yielded so far
    store,      \* checkpoint store: session id -> checkpoints, oldest first
    _checkpointer,  \* AgentCheckpointer._checkpointer: None or "saver"
    ccall       \* <<>>, or <<the last completed AgentCheckpointer call>>

wvars == <<state, node, executed, faults, pc, result, events>>
rvars == <<bm25_index, self_documents, embedding_cache, hcalls>>
hvars == <<hpc, hreq, sparse_results, dense_results, combined_scores,
           sorted_results, hout, hfail,
           bm25_index, self_documents, embedding_cache, hcalls>>
cvars == <<store, _checkpointer, ccall>>
vars == <<state, node, executed, faults, pc, result, events,
          hpc, hreq, sparse_results, dense_results, combined_scores,
          sorted_results, hout, hfail,
          bm25_index, self_documents, embedding_cache, hcalls,
          store, _checkpointer, ccall>>

----------------------------------------------------------------------------
(* Bounds *)

MaxDocs == 5        \* most documents one vector search returns
MaxScore == 1       \* document scores range over 0..MaxScore

NumDocs == 3        \* most documents in the corpus given to hybrid_retrieve
MaxTopK == 2        \* top_k ranges over 1..MaxTopK

MaxCheckpoints == 3 \* most checkpoints the store holds, all sessions together
MaxCalls == 2       \* most hybrid_retrieve calls made on one HybridRetriever

(* Program constants *)

MaxRetries == 2           \* the literal 2 of validation_node and should_retry
RerankThreshold == 3      \* len(docs) > 3 / len(docs) <= 3
RerankKeep == 3           \* sorted_docs[:3], docs[:3]
MinResponseLen == 10      \* len(response) > 10
RRFK == 60                \* k of _reciprocal_rank_fusion

None == "None"
Intents == {"retrieval", "sql", "visualization", "calculation", "general"}
ErrMsgs == {"", "boom"}

(* Texts the LLM can return as the answer: a proper answer, the literal    *)
(* "I don't know", a short reply, an empty reply, and a list of content    *)
(* blocks (AIMessage.content is str or list) longer than 10 blocks.        *)
Drafts == {"ANSWER", "IDK", "SHORT", "EMPTY", "BLOCKS"}

TextLen(t) ==
    CASE t = "ANSWER" -> 64
      [] t = "IDK" -> 12
      [] t = "SHORT" -> 4
      [] t = "EMPTY" -> 0
      [] t = "BLOCKS" -> 11
      [] t = "APOLOGY_ERROR" -> 41
      [] t = "FALLBACK" -> 150
      [] t = "ERROR_PREFIX" -> 7
      [] OTHER -> 0

IsStr(t) == t # "BLOCKS"
StartsWithIDontKnow(t) == t = "IDK"
StartsWithApologyError(t) == t = "APOLOGY_ERROR"

(* Python truthiness of an Optional[str] *)
Truthy(s) == s # None /\ s # ""

Min(a, b) == IF a < b THEN a ELSE b
Take(s, n) == SubSeq(s, 1, Min(n, Len(s)))

----------------------------------------------------------------------------
(* state.py *)

create_initial_state ==
    [ query_intent |-> None,
      rewritten_query |-> None,
      needs_rewrite |-> FALSE,
      retrieved_documents |-> <<>>,
      relevance_scores |-> <<>>,
      reranked_documents |-> <<>>,
      agent_thoughts |-> <<>>,
      current_step |-> "initialized",
      tools_used |-> <<>>,
      final_response |-> None,
      citations |-> <<>>,
      completed_at |-> <<>>,
      error |-> None,
      retry_count |-> 0,
      ui_state |-> [progress |-> 0, status |-> "processing"] ]

update_ui_state(progress, status) == [progress |-> progress, status |-> status]

(* The reducers of AgentState: Annotated[List, operator.add] fields are    *)
(* concatenated, every other field of the update replaces the old value.   *)
AppendFields_thoughts_replaced == {"tools_used"}

AppendFields == {"agent_thoughts", "tools_used"}

Merge_retry_count_added(s, u) ==
    [f \in DOMAIN s |->
        IF f \in DOMAIN u
        THEN IF f \in AppendFields THEN s[f] \o u[f]
             ELSE IF f = "retry_count" THEN s[f] + u[f] ELSE u[f]
        ELSE s[f]]

Merge(s, u) ==
    [f \in DOMAIN s |->
        IF f \in DOMAIN u
        THEN IF f \in AppendFields THEN s[f] \o u[f] ELSE u[f]
        ELSE s[f]]

----------------------------------------------------------------------------
(* nodes.py: every node is an operator from the current state and the      *)
(* outcome of its external call to the update the node returns.            *)

(* out.kind: "ok" (JSON object parsed), "badjson" (json.JSONDecodeError),  *)
(* "raise" (the LLM call raised, or the JSON was not an object).           *)
query_analysis_node(s, out) ==
    IF out.kind = "raise"
    THEN [ query_intent |-> "retrieval",
           needs_rewrite |-> TRUE,
           agent_thoughts |-> <<"Error in analysis">>,
           current_step |-> "query_analyzed",
           ui_state |-> update_ui_state(10, "processing") ]
    ELSE [ query_intent |-> IF out.kind = "badjson" THEN "retrieval" ELSE out.intent,
           needs_rewrite |-> IF out.kind = "badjson" THEN TRUE ELSE out.needs_rewrite,
           agent_thoughts |-> <<"Analyzed query intent">>,
           current_step |-> "query_analyzed",
           ui_state |-> update_ui_state(10, "processing") ]

(* out.kind: "ok" or "raise" (only consulted when the LLM is called) *)
query_rewrite_node(s, out) ==
    IF ~s.needs_rewrite \/ s.query_intent \notin {"retrieval", "sql"}
    THEN [ rewritten_query |-> "user_query",
           agent_thoughts |-> <<"Query rewrite not needed">>,
           current_step |-> "query_ready",
           ui_state |-> update_ui_state(20, "processing") ]
    ELSE IF out.kind = "ok"
    THEN [ rewritten_query |-> "rewritten",
           agent_thoughts |-> <<"Rewrote query">>,
           current_step |-> "query_rewritten",
           ui_state |-> update_ui_state(25, "processing") ]
    ELSE [ rewritten_query |-> "user_query",
           agent_thoughts |-> <<"Error rewriting query">>,
           current_step |-> "query_rewritten" ]

(* out.kind: "ok" (result["success"], out.sources), "failed" (success is  *)
(* False, out.msg = result.get("error")), "raise" (out.msg = str(e)).      *)
retrieval_node(s, out) ==
    CASE out.kind = "failed" ->
           [ retrieved_documents |-> <<>>,
             relevance_scores |-> <<>>,
             agent_thoughts |-> <<"Document retrieval failed">>,
             current_step |-> "retrieval_failed",
             error |-> out.msg ]
      [] out.kind = "ok" ->
           [ retrieved_documents |-> out.sources,
             relevance_scores |-> [i \in 1..Len(out.sources) |-> out.sources[i].score],
             agent_thoughts |-> <<"Retrieved relevant documents">>,
             current_step |-> "documents_retrieved",
             tools_used |-> <<"vector_search">>,
             ui_state |-> update_ui_state(50, "processing") ]
      [] OTHER ->
           [ retrieved_documents |-> <<>>,
             relevance_scores |-> <<>>,
             agent_thoughts |-> <<"Error retrieving documents">>,
             current_step |-> "retrieval_failed",
             error |-> out.msg ]

(* sorted(docs, key=score, reverse=True): stable, so documents of equal    *)
(* score keep their relative order.                                        *)
RECURSIVE InsertByScore(_, _)
InsertByScore(d, sorted) ==
    IF sorted = <<>> THEN <<d>>
    ELSE IF Head(sorted).score >= d.score
         THEN <<Head(sorted)>> \o InsertByScore(d, Tail(sorted))
         ELSE <<d>> \o sorted

RECURSIVE SortedByScoreDesc(_)
SortedByScoreDesc(docs) ==
    IF docs = <<>> THEN <<>>
    ELSE InsertByScore(docs[Len(docs)], SortedByScoreDesc(SubSeq(docs, 1, Len(docs) - 1)))

reranking_node_unsorted(s, out) ==
    LET docs == s.retrieved_documents IN
    IF Len(docs) <= RerankThreshold
    THEN [ reranked_documents |-> <<docs>>,
           agent_thoughts |-> <<"Skipped reranking">>,
           current_step |-> "documents_ready" ]
    ELSE IF out.kind = "ok"
    THEN [ reranked_documents |-> <<Take(docs, RerankKeep)>>,
           agent_thoughts |-> <<"Reranked to top documents">>,
           current_step |-> "documents_reranked",
           ui_state |-> update_ui_state(60, "processing") ]
    ELSE [ reranked_documents |-> <<s.retrieved_documents>>,
           agent_thoughts |-> <<"Error reranking">>,
           current_step |-> "documents_ready" ]

(* out.kind: "ok", or "raise" when the scores cannot be compared *)
reranking_node(s, out) ==
    LET docs == s.retrieved_documents IN
    IF Len(docs) <= RerankThreshold
    THEN [ reranked_documents |-> <<docs>>,
           agent_thoughts |-> <<"Skipped reranking">>,
           current_step |-> "documents_ready" ]
    ELSE IF out.kind = "ok"
    THEN [ reranked_documents |-> <<Take(SortedByScoreDesc(docs), RerankKeep)>>,
           agent_thoughts |-> <<"Reranked to top documents">>,
           current_step |-> "documents_reranked",
           ui_state |-> update_ui_state(60, "processing") ]
    ELSE [ reranked_documents |-> <<s.retrieved_documents>>,
           agent_thoughts |-> <<"Error reranking">>,
           current_step |-> "documents_ready" ]

(* state.get("reranked_documents") or state.get("retrieved_documents", []) *)
ResponseDocs(s) ==
    IF s.reranked_documents # <<>> /\ s.reranked_documents[1] # <<>>
    THEN s.reranked_documents[1]
    ELSE s.retrieved_documents

(* out.kind: "ok" (out.answer = response.content) or "raise" *)
response_generation_node(s, out, now) ==
    IF out.kind = "ok"
    THEN [ final_response |-> out.answer,
           citations |-> Take(ResponseDocs(s), RerankKeep),
           agent_thoughts |-> <<"Generated response with citations">>,
           current_step |-> "response_generated",
           completed_at |-> <<now>>,
           ui_state |-> update_ui_state(100, "complete") ]
    ELSE [ final_response |-> "APOLOGY_ERROR",
           citations |-> <<>>,
           agent_thoughts |-> <<"Error generating response">>,
           current_step |-> "response_failed",
           error |-> out.msg,
           completed_at |-> <<now>> ]

(* The validation predicate; startswith raises on a response that is not   *)
(* a string, and is only reached when len(response) > 10.                  *)
ValidationRaises(response) ==
    TextLen(response) > MinResponseLen /\ ~IsStr(response)

is_valid(response) ==
    /\ TextLen(response) > MinResponseLen
    /\ ~StartsWithIDontKnow(response)
    /\ ~StartsWithApologyError(response)

validation_node(s) ==
    LET response == s.final_response IN
    IF ValidationRaises(response)
    THEN [ agent_thoughts |-> <<"Validation error">>,
           current_step |-> "validated" ]
    ELSE IF ~is_valid(response) /\ s.retry_count < MaxRetries
    THEN [ agent_thoughts |-> <<"Response needs improvement, retrying...">>,
           current_step |-> "validation_failed",
           retry_count |-> s.retry_count + 1,
           needs_rewrite |-> TRUE ]
    ELSE [ agent_thoughts |-> <<"Response validated successfully">>,
           current_step |-> "validated" ]

(* The except branch of error_handling_node is not modelled: nothing in    *)
(* its try block raises on a state produced by this graph.                 *)
error_handling_node(s, now) ==
    [ final_response |-> "FALLBACK",
      citations |-> <<>>,
      agent_thoughts |-> <<"Error handled">>,
      current_step |-> "error_handled",
      completed_at |-> <<now>>,
      ui_state |-> update_ui_state(100, "error") ]

----------------------------------------------------------------------------
(* graph.py: conditional edges *)

route_after_analysis(s) ==
    IF Truthy(s.error) THEN "error" ELSE "rewrite"

should_retrieve_retrieval_only(s) ==
    IF Truthy(s.error) THEN "error"
    ELSE IF s.query_intent \in {"retrieval"} THEN "retrieve"
    ELSE "respond"

should_retrieve(s) ==
    IF Truthy(s.error) THEN "error"
    ELSE IF s.query_intent \in {"retrieval", "sql"} THEN "retrieve"
    ELSE "respond"

should_rerank_at_threshold(s) ==
    IF Truthy(s.error) THEN "error"
    ELSE IF Len(s.retrieved_documents) >= RerankThreshold THEN "rerank"
    ELSE "respond"

should_rerank(s) ==
    IF Truthy(s.error) THEN "error"
    ELSE IF Len(s.retrieved_documents) > RerankThreshold THEN "rerank"
    ELSE "respond"

should_retry_inclusive(s) ==
    IF Truthy(s.error) THEN "error"
    ELSE IF s.current_step = "validation_failed" /\ s.retry_count <= MaxRetries
         THEN "rewrite"
    ELSE "END"

should_retry_error_when_exhausted(s) ==
    IF Truthy(s.error) THEN "error"
    ELSE IF s.current_step = "validation_failed" /\ s.retry_count < MaxRetries
         THEN "rewrite"
    ELSE IF s.current_step = "validation_failed" THEN "error"
    ELSE "END"

should_retry(s) ==
    IF Truthy(s.error) THEN "error"
    ELSE IF s.current_step = "validation_failed" /\ s.retry_count < MaxRetries
         THEN "rewrite"
    ELSE "END"

NextNode_respond_to_end(n, s) ==
    CASE n = "analyze" -> route_after_analysis(s)
      [] n = "rewrite" -> should_retrieve(s)
      [] n = "retrieve" -> should_rerank(s)
      [] n = "rerank" -> "respond"
      [] n = "respond" -> "END"
      [] n = "validate" -> should_retry(s)
      [] n = "error" -> "END"

(* create_agent_graph: the node that runs after node n left the state s *)
NextNode(n, s) ==
    CASE n = "analyze" -> route_after_analysis(s)
      [] n = "rewrite" -> should_retrieve(s)
      [] n = "retrieve" -> should_rerank(s)
      [] n = "rerank" -> "respond"
      [] n = "respond" -> "validate"
      [] n = "validate" -> should_retry(s)
      [] n = "error" -> "END"

----------------------------------------------------------------------------
(* graph.py: run_agent.  One action per node execution (a superstep of     *)
(* agent_graph.ainvoke: run the node, merge its update, follow the edge).  *)

Now == Len(executed) + 1     \* datetime.utcnow(), as a logical clock

(* What the vector search can return: n <= MaxDocs documents whose scores  *)
(* cycle through 0..MaxScore from an offset r, so that the lists have      *)
(* ties and are not sorted by score.                                       *)
Sources ==
    { [i \in 1..n |-> [id |-> i, score |-> (i + r) % (MaxScore + 1)]] :
        n \in 0..MaxDocs, r \in 0..MaxScore }

AnalysisOutcomes ==
    { [kind |-> "ok", intent |-> i, needs_rewrite |-> b] : i \in Intents, b \in BOOLEAN }
    \cup { [kind |-> "badjson"], [kind |-> "raise"] }

LLMOutcomes == { [kind |-> "ok"], [kind |-> "raise"] }

RetrievalOutcomes ==
    { [kind |-> "ok", sources |-> src] : src \in Sources }
    \cup { [kind |-> k, msg |-> m] : k \in {"failed", "raise"}, m \in ErrMsgs }

ResponseOutcomes ==
    { [kind |-> "ok", answer |-> a] : a \in Drafts }
    \cup { [kind |-> "raise", msg |-> m] : m \in ErrMsgs }

(* agent_graph is compiled without a checkpointer (workflow.compile()), so *)
(* a superstep writes nothing to the checkpoint store.  Under astream the  *)
(* superstep's chunk {node name: update} is handed to the consumer.        *)
GraphRunning == pc \in {"running", "streaming"}

(* Of a chunk's update the model keeps the keys the stream's consumers     *)
(* read (api/agents.py event_generator) and leaves the document lists out. *)
StreamFields == {"current_step", "ui_state", "agent_thoughts", "final_response", "error"}

StreamChunk(n, update) ==
    [node |-> n,
     update |-> [f \in DOMAIN update \cap StreamFields |-> update[f]]]

Superstep(n, update) ==
    /\ state' = Merge(state, update)
    /\ node' = NextNode(n, Merge(state, update))
    /\ executed' = Append(executed, n)
    /\ events' = IF pc = "streaming"
                 THEN Append(events, StreamChunk(n, update))
                 ELSE events
    /\ UNCHANGED <<pc, result>>

Analyze ==
    /\ GraphRunning /\ node = "analyze"
    /\ \E out \in AnalysisOutcomes :
         /\ Superstep("analyze", query_analysis_node(state, out))
         /\ faults' = IF out.kind = "ok" THEN faults ELSE faults \cup {"llm"}
    /\ UNCHANGED <<hvars, cvars>>

Rewrite ==
    /\ GraphRunning /\ node = "rewrite"
    /\ \E out \in LLMOutcomes :
         /\ Superstep("rewrite", query_rewrite_node(state, out))
         /\ faults' = IF query_rewrite_node(state, out).agent_thoughts = <<"Error rewriting query">>
                      THEN faults \cup {"llm"} ELSE faults
    /\ UNCHANGED <<hvars, cvars>>

Retrieve ==
    /\ GraphRunning /\ node = "retrieve"
    /\ \E out \in RetrievalOutcomes :
         /\ Superstep("retrieve", retrieval_node(state, out))
         /\ faults' = IF out.kind = "ok" THEN faults ELSE faults \cup {"tool"}
    /\ UNCHANGED <<hvars, cvars>>

Rerank ==
    /\ GraphRunning /\ node = "rerank"
    /\ \E out \in LLMOutcomes :
         Superstep("rerank", reranking_node(state, out))
    /\ UNCHANGED <<faults, hvars, cvars>>

Respond ==
    /\ GraphRunning /\ node = "respond"
    /\ \E out \in ResponseOutcomes :
         /\ Superstep("respond", response_generation_node(state, out, Now))
         /\ faults' = IF out.kind = "ok" THEN faults ELSE faults \cup {"llm"}
    /\ UNCHANGED <<hvars, cvars>>

Validate ==
    /\ GraphRunning /\ node = "validate"
    /\ Superstep("validate", validation_node(state))
    /\ UNCHANGED <<faults, hvars, cvars>>

ErrorNode ==
    /\ GraphRunning /\ node = "error"
    /\ Superstep("error", error_handling_node(state, Now))
    /\ UNCHANGED <<faults, hvars, cvars>>

(* run_agent, try branch: ainvoke returned the final state *)
Return ==
    /\ pc = "running" /\ node = "END"
    /\ pc' = "returned"
    /\ result' = <<state>>
    /\ UNCHANGED <<state, node, executed, faults, events, hvars, cvars>>

(* run_agent, except branch: the state built when ainvoke raised e *)
run_agent_except(msg, now) ==
    Merge(create_initial_state,
          [ error |-> msg,
            final_response |-> "APOLOGY_ERROR",
            current_step |-> "error",
            completed_at |-> <<now>> ])

GraphFault ==
    /\ pc = "running" /\ node # "END"
    /\ \E msg \in ErrMsgs :
         result' = <<run_agent_except(msg, Now)>>
    /\ pc' = "returned"
    /\ faults' = faults \cup {"graph"}
    /\ UNCHANGED <<state, node, executed, events, hvars, cvars>>

(* Cancellation of the task awaiting run_agent: asyncio.CancelledError is  *)
(* raised at the await in flight.  It derives from BaseException, so       *)
(* neither the nodes' nor run_agent's "except Exception" catches it: it    *)
(* leaves run_agent, which returns nothing and calls nothing more.         *)
Cancel ==
    /\ pc = "running" /\ node # "END"
    /\ pc' = "cancelled"
    /\ UNCHANGED <<state, node, executed, faults, result, events, hvars, cvars>>

(* graph.py: run_agent_streaming.  "async for state in astream: yield      *)
(* state" forwards each chunk as it is; the generator ends when astream    *)
(* is exhausted.                                                           *)
StreamEnd ==
    /\ pc = "streaming" /\ node = "END"
    /\ pc' = "stream_done"
    /\ UNCHANGED <<state, node, executed, faults, result, events, hvars, cvars>>

(* run_agent_streaming, except branch: the event yielded when astream      *)
(* raised e ("Error: " + str(e) is the text ERROR_PREFIX).                 *)
run_agent_streaming_except(msg) ==
    [ error |-> msg,
      final_response |-> "ERROR_PREFIX",
      current_step |-> "error" ]

StreamFault ==
    /\ pc = "streaming" /\ node # "END"
    /\ \E msg \in ErrMsgs :
         events' = Append(events, run_agent_streaming_except(msg))
    /\ pc' = "stream_done"
    /\ faults' = faults \cup {"graph"}
    /\ UNCHANGED <<state, node, executed, result, hvars, cvars>>

----------------------------------------------------------------------------
(* hybrid_retrieval.py: HybridRetriever.                                   *)
(* A document is its text, a number of 1..NumDocs; a ranked list is a      *)
(* sequence of [doc, score] pairs.  Fused scores are exact rationals,      *)
(* held as integers in units of 1/Scale.                                   *)

Texts == 1..NumDocs
Alphas == { [num |-> 1, den |-> 4], [num |-> 1, den |-> 2], [num |-> 1, den |-> 1] }
DefaultAlpha == [num |-> 1, den |-> 2]

RECURSIVE GCD(_, _)
GCD(a, b) == IF b = 0 THEN a ELSE GCD(b, a % b)
LCM(a, b) == (a \div GCD(a, b)) * b

RECURSIVE LCMUpTo(_, _)
LCMUpTo(lo, hi) == IF hi < lo THEN 1 ELSE LCM(LCMUpTo(lo, hi - 1), hi)

(* the longest list fusion can see: top_k * 2 entries, at most the corpus *)
MaxListLen == Min(2 * MaxTopK, NumDocs)
RECURSIVE LCMOfSet(_)
LCMOfSet(S) == IF S = {} THEN 1
               ELSE LET x == CHOOSE y \in S : TRUE IN LCM(x, LCMOfSet(S \ {x}))

Scale == LCMOfSet({a.den : a \in Alphas}) * LCMUpTo(RRFK + 1, RRFK + MaxListLen)

Pair(d, x) == [doc |-> d, score |-> x]
DocsOf(list) == [i \in 1..Len(list) |-> list[i].doc]
DocSet(list) == {list[i].doc : i \in 1..Len(list)}

(* Corpora up to renaming of texts: text t first occurs after texts 1..t-1 *)
Corpora ==
    UNION { { c \in [1..n -> Texts] :
                \A i \in 1..n : \A t \in 1..(c[i] - 1) : \E j \in 1..(i - 1) : c[j] = t }
            : n \in 0..NumDocs }

IndexOrders(n) ==
    { p \in [1..n -> 1..n] : \A i, j \in 1..n : i # j => p[i] # p[j] }

(* np.argsort(scores)[::-1]: the indices by descending score; the order    *)
(* among equal scores is whatever the sort leaves, so any is possible.     *)
ArgsortDescending(documents, scores) ==
    { p \in IndexOrders(Len(documents)) :
        \A i, j \in 1..Len(documents) :
            i < j => scores[documents[p[i]]] >= scores[documents[p[j]]] }

(* retrieve_sparse after get_scores: order is the argsort, scores the BM25 *)
(* score of each text.                                                     *)
retrieve_sparse(documents, scores, order, top_k) ==
    LET top_indices == Take(order, top_k)
        Positive(idx) == scores[documents[idx]] > 0
        kept == SelectSeq(top_indices, Positive)
    IN [i \in 1..Len(kept) |-> Pair(documents[kept[i]], scores[documents[kept[i]]])]

(* retrieve_dense after the embeddings were computed *)
retrieve_dense(documents, similarities, order, top_k) ==
    LET top_indices == Take(order, top_k)
    IN [i \in 1..Len(top_indices) |->
          Pair(documents[top_indices[i]], similarities[documents[top_indices[i]]])]

(* combined_scores[doc] = combined_scores.get(doc, 0) + x on a dict kept   *)
(* as the sequence of its items in insertion order                         *)
DictAdd(dict, d, x) ==
    IF d \in DocSet(dict)
    THEN [i \in 1..Len(dict) |->
            IF dict[i].doc = d THEN Pair(d, dict[i].score + x) ELSE dict[i]]
    ELSE Append(dict, Pair(d, x))

(* weight / (k + rank + 1) for a 0-indexed rank, in units of 1/Scale *)
rrf_score_no_plus_one(weight_num, weight_den, rank) ==
    weight_num * (Scale \div (weight_den * (RRFK + rank)))

rrf_score(weight_num, weight_den, rank) ==
    weight_num * (Scale \div (weight_den * (RRFK + rank + 1)))

RECURSIVE AddRanked(_, _, _, _, _)
AddRanked(dict, results, weight_num, weight_den, done) ==
    IF done = Len(results) THEN dict
    ELSE AddRanked(DictAdd(dict, results[done + 1].doc,
                           rrf_score(weight_num, weight_den, done)),
                   results, weight_num, weight_den, done + 1)

_reciprocal_rank_fusion(sparse, dense, alpha) ==
    AddRanked(AddRanked(<<>>, sparse, alpha.den - alpha.num, alpha.den, 0),
              dense, alpha.num, alpha.den, 0)

(* ce.kind: "ok" (ce.scores[doc] is the cross-encoder score) or "raise" *)
rerank_results_empty_on_failure(documents, ce, top_k) ==
    IF Len(documents) = 0 THEN <<>>
    ELSE IF ce.kind = "ok"
    THEN Take(SortedByScoreDesc([i \in 1..Len(documents) |->
                                    Pair(documents[i], ce.scores[documents[i]])]),
              top_k)
    ELSE <<>>

rerank_results(documents, ce, top_k) ==
    IF Len(documents) = 0 THEN <<>>
    ELSE IF ce.kind = "ok"
    THEN Take(SortedByScoreDesc([i \in 1..Len(documents) |->
                                    Pair(documents[i], ce.scores[documents[i]])]),
              top_k)
    ELSE [i \in 1..Min(top_k, Len(documents)) |-> Pair(documents[i], 0)]

TextsOf(documents) == {documents[i] : i \in 1..Len(documents)}

(* BM25 scores: a text without a query term scores 0, the texts that match *)
(* score 1..j in some order (equal texts score equally).                   *)
BM25Scores(documents) ==
    { f \in [TextsOf(documents) -> 0..Cardinality(TextsOf(documents))] :
        /\ \A t, u \in DOMAIN f : (t # u /\ f[t] = f[u]) => f[t] = 0
        /\ \A t \in DOMAIN f : \A x \in 1..(f[t] - 1) : \E u \in DOMAIN f : f[u] = x }

(* Cosine similarities: distinct texts get distinct similarities *)
Similarities(documents) ==
    { f \in [TextsOf(documents) -> 1..Cardinality(TextsOf(documents))] :
        \A t, u \in DOMAIN f : t # u => f[t] # f[u] }

(* Cross-encoder scores of the candidates: they cycle through 0..MaxScore  *)
(* from an offset, so they tie and disagree with the candidates' order.    *)
CrossEncoderScores(documents) ==
    { [t \in TextsOf(documents) |-> (t + r) % (MaxScore + 1)] : r \in 0..MaxScore }

(* hybrid_retrieve, one action per awaited call.  None of the awaited     *)
(* coroutines suspends (the models are called synchronously), so under     *)
(* asyncio a call runs from start to return without another call on the    *)
(* same retriever running in between: the next call starts when this one   *)
(* is done.                                                                *)

NeedsIndex_only_when_none(index, indexed, given) == index = <<>>

(* "if self.bm25_index is None or self.documents != documents" *)
NeedsIndex(index, indexed, given) == index = <<>> \/ indexed # given

(* The except branch of hybrid_retrieve: the failure is logged and []      *)
(* is returned.                                                            *)
hybrid_retrieve_except_reraised(e) == [out |-> <<>>, raised |-> TRUE]

hybrid_retrieve_except(e) == [out |-> <<>>, raised |-> FALSE]

(* build_bm25_index when needed (BM25Okapi divides by the corpus size, so  *)
(* it raises on an empty corpus; the index and the documents are then      *)
(* left as they were and the except of hybrid_retrieve answers), then      *)
(* retrieve_sparse, which reads self.bm25_index and self.documents.        *)
HSparse ==
    /\ hpc = "start"
    /\ LET rebuild == NeedsIndex(bm25_index, self_documents, hreq.documents)
           indexed == IF rebuild THEN hreq.documents ELSE self_documents
       IN \/ /\ rebuild /\ hreq.documents = <<>>
             /\ hpc' = IF hybrid_retrieve_except("index").raised
                       THEN "raised" ELSE "done"
             /\ hout' = hybrid_retrieve_except("index").out
             /\ hfail' = hfail \cup {"index"}
             /\ UNCHANGED <<sparse_results, bm25_index, self_documents>>
          \/ /\ ~(rebuild /\ hreq.documents = <<>>)
             /\ bm25_index' = <<indexed>>
             /\ self_documents' = indexed
             /\ \/ /\ \E scores \in BM25Scores(indexed) :
                        \E order \in ArgsortDescending(indexed, scores) :
                           sparse_results' =
                               retrieve_sparse(indexed, scores, order, hreq.top_k * 2)
                   /\ UNCHANGED hfail
                \/ /\ sparse_results' = <<>>
                   /\ hfail' = hfail \cup {"sparse"}
             /\ hpc' = "dense"
             /\ UNCHANGED hout
    /\ UNCHANGED <<hreq, dense_results, combined_scores, sorted_results,
                   embedding_cache, hcalls, wvars, cvars>>

(* retrieve_dense: every document not yet in embedding_cache is encoded    *)
(* and cached; when the model raises at the query or at some document,     *)
(* the documents encoded before it stay cached and [] is returned.         *)
HDense ==
    /\ hpc = "dense"
    /\ \/ /\ hreq.documents # <<>>
          /\ \E sims \in Similarities(hreq.documents) :
               \E order \in ArgsortDescending(hreq.documents, sims) :
                  dense_results' =
                      retrieve_dense(hreq.documents, sims, order, hreq.top_k * 2)
          /\ embedding_cache' = embedding_cache \cup TextsOf(hreq.documents)
          /\ UNCHANGED hfail
       \/ /\ \E n \in 0..(Len(hreq.documents) - 1) :
               embedding_cache' =
                   embedding_cache \cup TextsOf(Take(hreq.documents, n))
          /\ dense_results' = <<>>
          /\ hfail' = hfail \cup {"embedding"}
    /\ hpc' = "fuse"
    /\ UNCHANGED <<hreq, sparse_results, combined_scores, sorted_results, hout,
                   bm25_index, self_documents, hcalls, wvars, cvars>>

(* _reciprocal_rank_fusion, sorted(..., reverse=True)[:top_k * 2], and the *)
(* return of the branch without re-ranking                                 *)
HFuse ==
    /\ hpc = "fuse"
    /\ LET combined == _reciprocal_rank_fusion(sparse_results, dense_results, hreq.alpha)
           sorted == Take(SortedByScoreDesc(combined), hreq.top_k * 2)
       IN /\ combined_scores' = combined
          /\ sorted_results' = sorted
          /\ IF hreq.rerank /\ Len(sorted) > 0
             THEN hpc' = "rerank" /\ UNCHANGED hout
             ELSE hpc' = "done" /\ hout' = Take(sorted, hreq.top_k)
    /\ UNCHANGED <<hreq, sparse_results, dense_results, hfail, rvars, wvars, cvars>>

(* rerank_results: the cross-encoder answers or raises *)
HRerank ==
    /\ hpc = "rerank"
    /\ \E ce \in { [kind |-> "ok", scores |-> f] : f \in CrossEncoderScores(DocsOf(sorted_results)) }
                 \cup { [kind |-> "raise"] } :
         /\ hout' = rerank_results(DocsOf(sorted_results), ce, hreq.top_k)
         /\ hfail' = IF ce.kind = "ok" THEN hfail ELSE hfail \cup {"reranker"}
    /\ hpc' = "done"
    /\ UNCHANGED <<hreq, sparse_results, dense_results, combined_scores,
                   sorted_results, rvars, wvars, cvars>>

(* The corpus of the next call on the same retriever: the same corpus      *)
(* again, or its next version, without its last document.                  *)
NextCorpora(c) ==
    {c} \cup (IF c = <<>> THEN {} ELSE {SubSeq(c, 1, Len(c) - 1)})

(* Another hybrid_retrieve call on the retriever, with the default top_k   *)
(* scaled to the model, the default alpha and no re-ranking.               *)
HNextCall ==
    /\ hpc = "done"
    /\ hcalls < MaxCalls
    /\ \E c \in NextCorpora(hreq.documents) :
         hreq' = [documents |-> c, top_k |-> 1, alpha |-> DefaultAlpha,
                  rerank |-> FALSE]
    /\ hcalls' = hcalls + 1
    /\ hpc' = "start"
    /\ sparse_results' = <<>>
    /\ dense_results' = <<>>
    /\ combined_scores' = <<>>
    /\ sorted_results' = <<>>
    /\ hout' = <<>>
    /\ hfail' = {}
    /\ UNCHANGED <<bm25_index, self_documents, embedding_cache, wvars, cvars>>

(* clear_cache, called between two hybrid_retrieve calls *)
clear_cache ==
    /\ hpc = "done"
    /\ embedding_cache # {}
    /\ embedding_cache' = {}
    /\ UNCHANGED <<hpc, hreq, sparse_results, dense_results, combined_scores,
                   sorted_results, hout, hfail, bm25_index, self_documents, hcalls,
                   wvars, cvars>>

HybridStep ==
    \/ HSparse
    \/ HDense
    \/ HFuse
    \/ HRerank
    \/ HNextCall
    \/ clear_cache

Requests ==
    { [documents |-> c, top_k |-> k, alpha |-> a, rerank |-> r] :
        c \in Corpora, k \in 1..MaxTopK, a \in Alphas, r \in BOOLEAN }

----------------------------------------------------------------------------
(* checkpointer.py: AgentCheckpointer, a wrapper of a PostgresSaver.  The  *)
(* store keeps, per thread_id (= session id), the checkpoints put so far,  *)
(* oldest first; a checkpoint is [id, step, state].  Every call into the   *)
(* PostgresSaver either succeeds or raises.                                *)

DefaultLimit == 10          \* list_checkpoints(limit=10)
Sessions == {"s1", "s2"}
RunSession == "s1"          \* the session_id passed to run_agent

EmptyStore == [sid \in Sessions |-> <<>>]

(* States a caller hands to save_checkpoint, each with its current_step *)
CheckpointStates ==
    { create_initial_state,
      Merge(create_initial_state, [current_step |-> "query_analyzed"]) }

RECURSIVE TotalSaved(_, _)
TotalSaved(st, S) ==
    IF S = {} THEN 0
    ELSE LET sid == CHOOSE x \in S : TRUE
         IN Len(st[sid]) + TotalSaved(st, S \ {sid})

(* The id the store gives the next checkpoint: unique across sessions *)
NextCheckpointId(st) == TotalSaved(st, Sessions) + 1

Reverse(seq) == [i \in 1..Len(seq) |-> seq[Len(seq) + 1 - i]]

(* get_checkpointer: creates the PostgresSaver on first use.  out is "ok", *)
(* "conn_fail" (from_conn_string raised: _checkpointer stays None) or      *)
(* "setup_fail" (setup raised after _checkpointer was assigned); both      *)
(* failures are re-raised.  A saver that exists is returned as it is.      *)
InitOutcomes == {"ok", "conn_fail", "setup_fail"}
StoreOutcomes == {"ok", "fail"}

(* The creation is attempted only while no saver exists *)
InitOutcomesFor(cp) == IF cp = None THEN InitOutcomes ELSE {"ok"}

get_checkpointer_raises(cp, out) == cp = None /\ out # "ok"

get_checkpointer(cp, out) ==
    IF cp = None /\ out = "conn_fail" THEN None ELSE "saver"

CheckpointerIdle == pc = "idle" /\ hpc = "idle"

CallRecord(op, sid, cid, limit, ret, raised, fault) ==
    [ op |-> op, session |-> sid, checkpoint_id |-> cid, limit |-> limit,
      ret |-> ret, raised |-> raised, fault |-> fault, before |-> store ]

(* save_checkpoint: aput appends the checkpoint; any exception (creating   *)
(* the saver, or the put) is logged and re-raised to the caller.           *)
save_checkpoint ==
    /\ CheckpointerIdle
    /\ \E sid \in Sessions, st \in CheckpointStates,
          init \in InitOutcomesFor(_checkpointer), put \in StoreOutcomes :
         LET init_raised == get_checkpointer_raises(_checkpointer, init)
             fault == IF init_raised THEN "init"
                      ELSE IF put = "fail" THEN "put" ELSE "none"
             id == NextCheckpointId(store)
         IN /\ TotalSaved(store, Sessions) < MaxCheckpoints
            /\ store' = IF fault = "none"
                        THEN [store EXCEPT ![sid] =
                                Append(@, [id |-> id, step |-> st.current_step,
                                           state |-> st])]
                        ELSE store
            /\ _checkpointer' = get_checkpointer(_checkpointer, init)
            /\ ccall' = <<CallRecord("save", sid, <<>>, 0,
                                     IF fault = "none" THEN <<id>> ELSE <<>>,
                                     fault # "none", fault)>>
    /\ UNCHANGED <<wvars, hvars>>

(* load_checkpoint: aget is called with the thread_id only, so the latest  *)
(* checkpoint of the session is returned whatever checkpoint_id is; any    *)
(* exception is logged and None is returned.                               *)
load_checkpoint ==
    /\ CheckpointerIdle
    /\ \E sid \in Sessions,
          cid \in {<<>>} \cup {<<i>> : i \in 1..NextCheckpointId(store)},
          init \in InitOutcomesFor(_checkpointer), get \in StoreOutcomes :
         LET init_raised == get_checkpointer_raises(_checkpointer, init)
             fault == IF init_raised THEN "init"
                      ELSE IF get = "fail" THEN "get" ELSE "none"
             saved == store[sid]
         IN /\ _checkpointer' = get_checkpointer(_checkpointer, init)
            /\ ccall' = <<CallRecord("load", sid, cid, 0,
                                     IF fault = "none" /\ saved # <<>>
                                     THEN <<saved[Len(saved)]>> ELSE <<>>,
                                     FALSE, fault)>>
    /\ UNCHANGED <<store, wvars, hvars>>

(* list_checkpoints: alist gives the session's checkpoints, most recent    *)
(* first, at most limit of them; any exception is logged and [] returned.  *)
list_checkpoints ==
    /\ CheckpointerIdle
    /\ \E sid \in Sessions, limit \in {1, DefaultLimit},
          init \in InitOutcomesFor(_checkpointer), list \in StoreOutcomes :
         LET init_raised == get_checkpointer_raises(_checkpointer, init)
             fault == IF init_raised THEN "init"
                      ELSE IF list = "fail" THEN "list" ELSE "none"
         IN /\ _checkpointer' = get_checkpointer(_checkpointer, init)
            /\ ccall' = <<CallRecord("list", sid, <<>>, limit,
                                     IF fault = "none"
                                     THEN Take(Reverse(store[sid]), limit)
                                     ELSE <<>>,
                                     FALSE, fault)>>
    /\ UNCHANGED <<store, wvars, hvars>>

(* delete_checkpoints: a placeholder; it logs, touches nothing and         *)
(* returns 0.                                                              *)
delete_checkpoints ==
    /\ CheckpointerIdle
    /\ \E sid \in Sessions :
         ccall' = <<CallRecord("delete", sid, <<>>, 0, <<0>>, FALSE, "none")>>
    /\ UNCHANGED <<store, _checkpointer, wvars, hvars>>

CheckpointerStep ==
    \/ save_checkpoint
    \/ load_checkpoint
    \/ list_checkpoints
    \/ delete_checkpoints

----------------------------------------------------------------------------
(* Initial states: either a run_agent call or a hybrid_retrieve call is    *)
(* about to start; the two components share nothing.                       *)

WInit ==
    /\ state = create_initial_state
    /\ node = "analyze"
    /\ executed = <<>>
    /\ faults = {}
    /\ result = <<>>
    /\ events = <<>>

CInit ==
    /\ store = EmptyStore
    /\ _checkpointer = None
    /\ ccall = <<>>

RInit ==
    /\ bm25_index = <<>>
    /\ self_documents = <<>>
    /\ embedding_cache = {}

HIdle ==
    /\ RInit
    /\ hcalls = 0
    /\ hreq = <<>>
    /\ sparse_results = <<>>
    /\ dense_results = <<>>
    /\ combined_scores = <<>>
    /\ sorted_results = <<>>
    /\ hout = <<>>
    /\ hfail = {}

WorkflowInit ==
    /\ WInit
    /\ pc = "running"
    /\ HIdle
    /\ hpc = "idle"
    /\ CInit

StreamingInit ==
    /\ WInit
    /\ pc = "streaming"
    /\ HIdle
    /\ hpc = "idle"
    /\ CInit

CheckpointerInit ==
    /\ WInit
    /\ pc = "idle"
    /\ HIdle
    /\ hpc = "idle"
    /\ CInit

HybridInit ==
    /\ WInit
    /\ pc = "idle"
    /\ sparse_results = <<>>
    /\ dense_results = <<>>
    /\ combined_scores = <<>>
    /\ sorted_results = <<>>
    /\ hout = <<>>
    /\ hfail = {}
    /\ hreq \in Requests
    /\ hpc = "start"
    /\ RInit
    /\ hcalls = 1
    /\ CInit

Init == WorkflowInit \/ StreamingInit \/ HybridInit \/ CheckpointerInit

GraphStep ==
    \/ Analyze
    \/ Rewrite
    \/ Retrieve
    \/ Rerank
    \/ Respond
    \/ Validate
    \/ ErrorNode
    \/ Return

Next ==
    \/ GraphStep
    \/ GraphFault
    \/ Cancel
    \/ StreamEnd
    \/ StreamFault
    \/ HybridStep
    \/ CheckpointerStep

Spec == Init /\ [][Next]_vars

(* Every external call returns or fails, and the graph runtime keeps       *)
(* scheduling the next node: weak fairness on the graph's steps.           *)
LiveSpec == WorkflowInit /\ [][GraphStep]_vars /\ WF_vars(GraphStep)

----------------------------------------------------------------------------
(* Shorthands for the properties *)

Count(seq, x) == Cardinality({i \in 1..Len(seq) : seq[i] = x})
Returned == pc = "returned"
Final == result[1]

TypeOK ==
    /\ node \in {"analyze", "rewrite", "retrieve", "rerank", "respond", "validate", "error", "END"}
    /\ pc \in {"idle", "running", "returned", "cancelled", "streaming", "stream_done"}
    /\ state.retry_count \in Int
    /\ Len(result) <= 1

----------------------------------------------------------------------------
(* Properties of the workflow *)

LastExecuted == IF executed = <<>> THEN "none" ELSE executed[Len(executed)]
NodeRuns(n) == executed' = Append(executed, n)
Rejected(s) == ~ValidationRaises(s.final_response) /\ ~is_valid(s.final_response)
NonEmptyText(t) == t # None /\ TextLen(t) > 0

(* C1: whenever validate rejects the draft with no error set and           *)
(* retry_count below maxRetries, retry_count is incremented and the next   *)
(* node is rewrite (so a draft rejected every time is generated three      *)
(* times, the retries being taken at retry_count 0 and 1).                 *)
C1_RetryWhileBelowMax ==
    [][ ( /\ NodeRuns("validate")
          /\ Rejected(state)
          /\ state.error = None
          /\ state.retry_count < MaxRetries )
        => ( /\ state'.retry_count = state.retry_count + 1
             /\ node' = "rewrite" ) ]_vars

(* C2 as stated: a run executes at most 2 + 2*maxRetries + 1 nodes. *)
C2_AtMostSevenNodes == Len(executed) <= 2 + 2 * MaxRetries + 1

(* C2 amended: a run executes at most 12 nodes: the six nodes of the first *)
(* pass, the five nodes rewrite..validate of the one retry pass the graph  *)
(* takes, and the error node.                                              *)
C2_NodeBound == Len(executed) <= 6 + 5 * (MaxRetries - 1) + 1

C2_Witness ==
    /\ Returned
    /\ Len(executed) = 12
    /\ LastExecuted = "error"

(* C3: retry_count is between 0 and maxRetries in every reachable state    *)
(* of a run and in the state the run returns.                              *)
C3_RetryCountInRange ==
    /\ state.retry_count \in 0..MaxRetries
    /\ Returned => Final.retry_count \in 0..MaxRetries

C3_Witness ==
    /\ Returned
    /\ "graph" \notin faults
    /\ Final.retry_count = MaxRetries

(* C4: under fair scheduling of the graph's steps every run reaches END,   *)
(* and the node executed right before END is validate or error.            *)
C4_ReachesEnd ==
    <>(node = "END" /\ LastExecuted \in {"validate", "error"})

C4_Witness ==
    /\ node = "END"
    /\ LastExecuted = "validate"
    /\ Count(executed, "rewrite") = 2
    /\ state.current_step = "validated"

(* C5: if a node of the run set error, the error node has executed before  *)
(* END and the returned state carries the generic fallback apology and a   *)
(* completed_at.                                                           *)
C5_ErrorFallback ==
    (node = "END" /\ state.error # None)
        => /\ LastExecuted = "error"
           /\ state.final_response = "FALLBACK"
           /\ state.completed_at # <<>>
           /\ Returned => Final = state

(* C6: run_agent never raises to its caller, and after any failure of the  *)
(* LLM, the vector-search tool or the graph the state it returns has a     *)
(* non-empty final_response.                                               *)
C6_ReturnsDisplayableState ==
    /\ pc # "raised"
    /\ (Returned /\ faults # {}) => NonEmptyText(Final.final_response)

----------------------------------------------------------------------------
(* Properties of the hybrid retriever and of re-ranking *)

SeqSet(seq) == {seq[i] : i \in 1..Len(seq)}
NoRepeat(seq) == \A i, j \in 1..Len(seq) : i # j => seq[i] # seq[j]
Descending(list) == \A i, j \in 1..Len(list) : i < j => list[i].score >= list[j].score
BestKept(kept, all) ==
    \A x \in SeqSet(all) \ SeqSet(kept) : \A y \in SeqSet(kept) : x.score <= y.score

Fused == hpc \in {"rerank", "done"} /\ "index" \notin hfail
HybridDone == hpc = "done" /\ "index" \notin hfail
RerankResultsRan == HybridDone /\ hreq.rerank /\ sorted_results # <<>>
RerankNodeRan == pc # "idle" /\ LastExecuted = "rerank"

(* C8 as stated: the set of documents after re-ranking equals the set      *)
(* passed in, for rerank_results and for the rerank node.                  *)
C8_RerankKeepsEveryDocument ==
    /\ RerankResultsRan => DocSet(hout) = DocSet(sorted_results)
    /\ RerankNodeRan =>
          SeqSet(state.reranked_documents[1]) = SeqSet(state.retrieved_documents)

(* C8 amended: re-ranking adds no document and repeats none, but it cuts:  *)
(* rerank_results returns min(top_k, n) of its n documents, the best by    *)
(* cross-encoder score in descending order, or on failure the first top_k  *)
(* in input order with score 0; the rerank node returns the 3 best-scored  *)
(* retrieved documents in descending order, or all of them unchanged on    *)
(* its exception path.                                                     *)
C8_RerankSelectsFromInput ==
    /\ RerankResultsRan =>
          /\ DocSet(hout) \subseteq DocSet(sorted_results)
          /\ NoRepeat(DocsOf(hout))
          /\ Len(hout) = Min(hreq.top_k, Len(sorted_results))
          /\ IF "reranker" \in hfail
             THEN /\ DocsOf(hout) = Take(DocsOf(sorted_results), hreq.top_k)
                  /\ \A i \in 1..Len(hout) : hout[i].score = 0
             ELSE Descending(hout)
    /\ RerankNodeRan =>
          LET docs == state.retrieved_documents
              reranked == state.reranked_documents[1]
          IN IF state.current_step = "documents_reranked"
             THEN /\ SeqSet(reranked) \subseteq SeqSet(docs)
                  /\ NoRepeat(reranked)
                  /\ Len(reranked) = Min(RerankKeep, Len(docs))
                  /\ Descending(reranked)
                  /\ BestKept(reranked, docs)
             ELSE reranked = docs

C8_Witness ==
    /\ RerankNodeRan
    /\ state.current_step = "documents_reranked"
    /\ Len(state.reranked_documents[1]) < Len(state.retrieved_documents)
    /\ state.reranked_documents[1][1] # state.retrieved_documents[1]

(* C9: when no document repeats within a list, the combined score of a     *)
(* document is (1-alpha)/(k+r_s+1) for its 0-indexed sparse rank r_s plus  *)
(* alpha/(k+r_d+1) for its dense rank r_d, a list that lacks it giving 0;  *)
(* so rank 0 in both lists with alpha = 1/2 gives 1/(k+1), and rank 0 in   *)
(* the dense list alone gives alpha/(k+1).  Scores are in units 1/Scale,   *)
(* ranks below are 1-indexed.                                              *)
RankIn(list, d) == CHOOSE r \in 1..Len(list) : list[r].doc = d

ExpectedTerm(list, d, num, den) ==
    IF d \in DocSet(list)
    THEN (num * Scale) \div (den * (RRFK + RankIn(list, d)))
    ELSE 0

C9_FusionScores ==
    (Fused /\ NoRepeat(DocsOf(sparse_results)) /\ NoRepeat(DocsOf(dense_results))) =>
        LET a == hreq.alpha IN
        /\ DocSet(combined_scores) = DocSet(sparse_results) \cup DocSet(dense_results)
        /\ NoRepeat(DocsOf(combined_scores))
        /\ \A i \in 1..Len(combined_scores) :
              LET d == combined_scores[i].doc
                  x == combined_scores[i].score
              IN /\ x = ExpectedTerm(sparse_results, d, a.den - a.num, a.den)
                        + ExpectedTerm(dense_results, d, a.num, a.den)
                 /\ ( /\ a = DefaultAlpha
                      /\ sparse_results # <<>> /\ sparse_results[1].doc = d
                      /\ dense_results # <<>> /\ dense_results[1].doc = d )
                    => x * (RRFK + 1) = Scale
                 /\ ( /\ d \notin DocSet(sparse_results)
                      /\ dense_results[1].doc = d )
                    => x * a.den * (RRFK + 1) = a.num * Scale

C9_Witness ==
    /\ Fused
    /\ hreq.alpha = DefaultAlpha
    /\ NoRepeat(DocsOf(sparse_results)) /\ NoRepeat(DocsOf(dense_results))
    /\ Len(sparse_results) >= 2 /\ Len(dense_results) >= 3
    /\ sparse_results[1].doc = dense_results[1].doc
    /\ dense_results[2].doc \notin DocSet(sparse_results)
    /\ sparse_results[2].doc = dense_results[3].doc

(* C10 as stated: when the embedding call or the cross-encoder call fails  *)
(* and sparse retrieval has matches, hybrid_retrieve returns the top K of  *)
(* the sparse ranking, in that ranking's order (stated for sparse lists    *)
(* in which no text repeats).                                              *)
C10_FallsBackToSparseRanking ==
    ( /\ HybridDone
      /\ hfail \cap {"embedding", "reranker"} # {}
      /\ sparse_results # <<>>
      /\ NoRepeat(DocsOf(sparse_results)) )
    => DocsOf(hout) = Take(DocsOf(sparse_results), hreq.top_k)

(* C10 amended: when the embedding call or the cross-encoder call fails,   *)
(* hybrid_retrieve returns, and returns a non-empty list if sparse         *)
(* retrieval has matches.  After an embedding failure the candidates are   *)
(* the documents of the sparse list (in its order when no text repeats);   *)
(* after a cross-encoder failure the result is the first K candidates of   *)
(* the fused ranking in that order, with score 0.  So the result is the    *)
(* top K of the sparse ranking when the embedding call failed and          *)
(* re-ranking was off or failed too; a cross-encoder that works still      *)
(* reorders the sparse candidates, and a cross-encoder failure alone       *)
(* leaves the fused sparse-and-dense order.                                *)
C10_FallbackOnCollaboratorFailure ==
    (HybridDone /\ hfail \cap {"embedding", "reranker"} # {}) =>
        /\ sparse_results # <<>> => hout # <<>>
        /\ "embedding" \in hfail =>
              /\ dense_results = <<>>
              /\ DocSet(sorted_results) = DocSet(sparse_results)
              /\ NoRepeat(DocsOf(sparse_results))
                    => DocsOf(sorted_results) = DocsOf(sparse_results)
        /\ "reranker" \in hfail =>
              /\ DocsOf(hout) = Take(DocsOf(sorted_results), hreq.top_k)
              /\ \A i \in 1..Len(hout) : hout[i].score = 0
        /\ ( /\ "embedding" \in hfail
             /\ "reranker" \in hfail \/ ~hreq.rerank
             /\ NoRepeat(DocsOf(sparse_results)) )
           => DocsOf(hout) = Take(DocsOf(sparse_results), hreq.top_k)

C10_Witness ==
    /\ HybridDone
    /\ hfail = {"reranker"}
    /\ Len(sparse_results) >= 2
    /\ Len(hout) = hreq.top_k
    /\ hout[1].doc # sparse_results[1].doc
    /\ DocsOf(hout) = Take(DocsOf(sorted_results), hreq.top_k)

----------------------------------------------------------------------------
(* Properties of checkpointing, streaming and cancellation *)

LastCall == ccall[1]
Called(op) == ccall # <<>> /\ LastCall.op = op
GraphCompleted == Returned /\ "graph" \notin faults
LatestOf(saved) == IF saved = <<>> THEN <<>> ELSE <<saved[Len(saved)]>>

(* C11: when run_agent returns after the graph ran to END, the history of  *)
(* the run's session holds one new checkpoint per node executed, saved     *)
(* with step = current_step, and the latest checkpoint is the final state. *)
C11_CheckpointPerNode ==
    GraphCompleted =>
        LET saved == store[RunSession] IN
        /\ Len(saved) = Len(executed)
        /\ LatestOf(saved) # <<>>
        /\ LatestOf(saved)[1].state = Final
        /\ LatestOf(saved)[1].step = Final.current_step

(* C12: when the store's put fails during save_checkpoint, the failure is  *)
(* not propagated: save_checkpoint does not raise to its caller.           *)
C12_SaveFailureNotPropagated ==
    (Called("save") /\ LastCall.fault = "put") => ~LastCall.raised

(* C13: delete_checkpoints(session_id) returns the number of checkpoints   *)
(* the session held and leaves the session with none (so load_checkpoint   *)
(* finds nothing and list_checkpoints is empty), other sessions unchanged. *)
C13_DeleteRemovesSession ==
    Called("delete") =>
        /\ LastCall.ret = <<Len(LastCall.before[LastCall.session])>>
        /\ store[LastCall.session] = <<>>
        /\ \A sid \in Sessions \ {LastCall.session} :
              store[sid] = LastCall.before[sid]

(* C14: with a healthy store, load_checkpoint returns the checkpoint of    *)
(* the session whose id is checkpoint_id when one is given, the most       *)
(* recently saved checkpoint when checkpoint_id is None, and None only     *)
(* when the session has no such checkpoint.                                *)
C14_LoadReturnsRequested ==
    (Called("load") /\ LastCall.fault = "none") =>
        LET saved == LastCall.before[LastCall.session]
            cid == LastCall.checkpoint_id
            hasId(c) == c.id = cid[1]
        IN LastCall.ret = IF cid = <<>> THEN LatestOf(saved)
                          ELSE SelectSeq(saved, hasId)

EventResponse(e) ==
    IF "final_response" \in DOMAIN e THEN <<e.final_response>>
    ELSE IF "update" \in DOMAIN e /\ "final_response" \in DOMAIN e.update
         THEN <<e.update.final_response>>
    ELSE <<>>

(* C15: when run_agent_streaming is exhausted (astream having raised      *)
(* nothing) it has yielded exactly one event per executed node, in         *)
(* execution order, and the last event carries the run's final_response.   *)
C15_OneEventPerNode ==
    (pc = "stream_done" /\ "graph" \notin faults) =>
        /\ Len(events) = Len(executed)
        /\ \A i \in 1..Len(events) :
              "node" \in DOMAIN events[i] /\ events[i].node = executed[i]
        /\ events # <<>>
        /\ EventResponse(events[Len(events)]) = <<state.final_response>>

(* C16: when validate rejects the draft of a run whose error is unset and  *)
(* the run does not go back to rewrite, the run goes to END (not to the    *)
(* error node), error is still unset, and final_response is still the      *)
(* draft respond produced (not the fallback text of the error node).       *)
C16_RejectedDraftReturned ==
    [][ ( /\ NodeRuns("validate")
          /\ Rejected(state)
          /\ state.error = None
          /\ node' # "rewrite" )
        => ( /\ node' = "END"
             /\ "error" \notin SeqSet(executed')
             /\ state'.error = None
             /\ state.final_response \in Drafts
             /\ state'.final_response = state.final_response ) ]_vars

C16_Witness ==
    /\ Returned
    /\ LastExecuted = "validate"
    /\ Rejected(Final)
    /\ Final.error = None
    /\ Final.retry_count = MaxRetries
    /\ Final.final_response = "IDK"

(* C17: when run_agent is cancelled while a node is in flight, a save of   *)
(* the partial state under the run's session has been attempted and the    *)
(* caller holds a result whose status is cancelled.                        *)
C17_CancelSavesAndReports ==
    pc = "cancelled" =>
        /\ Called("save") /\ LastCall.session = RunSession
        /\ result # <<>>
        /\ Final.current_step = "cancelled"

(* C18: whenever a node other than the error node has left error set, the *)
(* node that runs next is the error node.                                  *)
C18_ErrorRoutesToErrorNode ==
    ( /\ executed # <<>>
      /\ LastExecuted # "error"
      /\ Truthy(state.error) )
    => node = "error"

(* C19: a node assigns completed_at only if completed_at was not assigned  *)
(* before and the node is the last one before END.                         *)
C19_CompletedAtOnceByTerminalNode ==
    [][ (state'.completed_at # state.completed_at)
        => (state.completed_at = <<>> /\ node' = "END") ]_vars

ThrowThoughts ==
    { "Error in analysis", "Error rewriting query", "Error retrieving documents",
      "Error reranking", "Error generating response", "Validation error" }
FailedSteps ==
    { "analysis_failed", "rewrite_failed", "retrieval_failed",
      "reranking_failed", "response_failed", "validation_failed" }
LastThought ==
    IF state.agent_thoughts = <<>> THEN "none"
    ELSE state.agent_thoughts[Len(state.agent_thoughts)]

(* C20: when the call of the node that ran last threw, the node has set    *)
(* error to the failure message and current_step to a "..._failed" step,   *)
(* and the node that runs next is the error node.                          *)
C20_ThrowBecomesErrorState ==
    ( /\ executed # <<>>
      /\ LastExecuted # "error"
      /\ LastThought \in ThrowThoughts )
    => /\ state.error \in ErrMsgs
       /\ state.current_step \in FailedSteps
       /\ node = "error"

----------------------------------------------------------------------------
(* Properties of routing, retries and progress *)

(* C21: whenever respond is about to run, the documents it uses            *)
(* (reranked_documents when non-empty, else retrieved_documents) are       *)
(* documents of the current retrieved_documents (stated for runs in which  *)
(* no collaborator has failed).                                            *)
C21_ResponseDocsAreRetrieved ==
    (GraphRunning /\ node = "respond" /\ faults = {}) =>
        SeqSet(ResponseDocs(state)) \subseteq SeqSet(state.retrieved_documents)

RetrievalIntents == {"retrieval", "sql"}

(* C22: after rewrite with no error the next node is retrieve if           *)
(* query_intent is retrieval or sql and respond otherwise; in a run with   *)
(* another intent retrieve and rerank never execute and tools_used stays   *)
(* empty.                                                                  *)
C22_RetrieveOnlyForRetrievalIntents ==
    [][ /\ (NodeRuns("rewrite") /\ ~Truthy(state'.error))
           => node' = IF state'.query_intent \in RetrievalIntents
                      THEN "retrieve" ELSE "respond"
        /\ (state'.query_intent \in Intents \ RetrievalIntents)
           => /\ "retrieve" \notin SeqSet(executed')
              /\ "rerank" \notin SeqSet(executed')
              /\ state'.tools_used = <<>> ]_vars

C22_Witness ==
    /\ Returned
    /\ Final.query_intent = "calculation"
    /\ Count(executed, "rewrite") = 2
    /\ Final.tools_used = <<>>

(* C23: after retrieve with no error the next node is rerank if more than  *)
(* 3 documents were retrieved and respond otherwise; a run that retrieved  *)
(* 5 documents and whose first draft was accepted is analyze, rewrite,     *)
(* retrieve, rerank, respond, validate and ends with current_step          *)
(* 'validated' and retry_count 0.                                          *)
C23_RerankAboveThreshold ==
    [][ /\ (NodeRuns("retrieve") /\ ~Truthy(state'.error))
           => node' = IF Len(state'.retrieved_documents) > RerankThreshold
                      THEN "rerank" ELSE "respond"
        /\ ( /\ node' = "END"
             /\ Len(state'.retrieved_documents) = 5
             /\ Count(executed', "respond") = 1
             /\ ~Truthy(state'.error)
             /\ is_valid(state'.final_response) )
           => /\ executed' = <<"analyze", "rewrite", "retrieve", "rerank",
                               "respond", "validate">>
              /\ state'.current_step = "validated"
              /\ state'.retry_count = 0 ]_vars

C23_Witness ==
    /\ Returned
    /\ Len(Final.retrieved_documents) = 5
    /\ executed = <<"analyze", "rewrite", "retrieve", "rerank", "respond", "validate">>
    /\ Final.current_step = "validated"
    /\ Len(Final.reranked_documents[1]) = RerankKeep

RetriesPerformed ==
    Cardinality({ i \in 1..(Len(executed) - 1) :
                    executed[i] = "validate" /\ executed[i + 1] = "rewrite" })

(* C27: in the state run_agent returns after the graph ran to END,         *)
(* retry_count is the number of times the run went from validate back to   *)
(* rewrite (stated for runs in which no collaborator has failed).          *)
C27_RetryCountIsRetries ==
    (GraphCompleted /\ faults = {}) => Final.retry_count = RetriesPerformed

(* C28: whenever a run ends with current_step = 'validated', the returned  *)
(* final_response passes the validation predicate (longer than 10, not     *)
(* starting with "I don't know" or with the apology of a failed respond).  *)
C28_ValidatedMeansValid ==
    (GraphCompleted /\ Final.current_step = "validated")
    => is_valid(Final.final_response)

C28_Witness ==
    /\ GraphCompleted
    /\ Final.current_step = "validated"
    /\ Count(executed, "validate") = 2
    /\ Final.final_response = "ANSWER"

UiOf(e) ==
    IF "update" \in DOMAIN e /\ "ui_state" \in DOMAIN e.update
    THEN <<e.update.ui_state>> ELSE <<>>

(* C29: over the updates streamed for one run, ui_state progress never     *)
(* decreases, and after an update with progress 100 and status 'complete'  *)
(* no later update has status 'processing'.                                *)
C29_ProgressNeverDecreases ==
    \A i, j \in 1..Len(events) :
        (i < j /\ UiOf(events[i]) # <<>> /\ UiOf(events[j]) # <<>>)
        => LET a == UiOf(events[i])[1]
               b == UiOf(events[j])[1]
           IN /\ a.progress <= b.progress
              /\ (a.progress = 100 /\ a.status = "complete")
                 => b.status # "processing"


(* A hybrid_retrieve call on the retriever that got past the index *)
SparseRan == hpc \in {"dense", "fuse", "rerank", "done"} /\ "index" \notin hfail

(* retrieve_dense of the call in progress answered *)
DenseRan == hpc \in {"fuse", "rerank"} /\ "embedding" \notin hfail

C25_CacheHoldsCurrentCorpusOnly ==
    (DenseRan /\ hfail = {}) => embedding_cache \subseteq TextsOf(hreq.documents)

(* C26: hybrid_retrieve with an empty corpus returns an empty sequence and *)
(* does not raise, with and without re-ranking; and the fusion of two      *)
(* empty lists is empty.                                                   *)
C26_EmptyCorpusReturnsEmpty ==
    /\ (hpc \notin {"idle", "start"} /\ hreq.documents = <<>>) =>
          hpc = "done" /\ hout = <<>>
    /\ \A a \in Alphas : _reciprocal_rank_fusion(<<>>, <<>>, a) = <<>>

C26_Witness ==
    /\ hpc = "done"
    /\ hreq.documents = <<>>
    /\ hreq.rerank
    /\ "index" \in hfail
    /\ hout = <<>>

(* C30: no combined score of the fusion exceeds 1/(k+1), also when the     *)
(* corpus holds the same text more than once.                              *)
C30_ScoreAtMostTopTerm ==
    (Fused /\ hfail = {}) =>
        \A i \in 1..Len(combined_scores) :
            combined_scores[i].score <= Scale \div (RRFK + 1)

====
